---- MODULE Spec2Model ----
(***************************************************************************)
(* State-machine model of the SC1000 playback core:                        *)
(*   - software/dicer.c  : Novation Dicer MIDI decoding and dispatch       *)
(*   - software/player.c : block rendering, dead reckoning, resync, lock   *)
(*                                                                         *)
(* Times and positions are integers counted in units of 1/Scale second, so *)
(* 1/8 s (SKIP_THRESHOLD) is Scale/8 units.  The nominal pitch, which the  *)
(* code computes as (2^(1/12))^k, is kept as its exponent k in semitones.  *)
(***************************************************************************)
EXTENDS Integers, Sequences, FiniteSets, TLC

(***************************************************************************)
(* Bounds of the model                                                     *)
(***************************************************************************)
\* messages one realtime() call may read before the transport runs dry
MaxMsgs == 2

\* units per second in which positions and pitches are counted
Scale == 8

\* positions range over 0 .. MaxPos units
MaxPos == 3

\* capacity of the Input Queue
MaxQueue == 2

\* largest block player_collect is asked for
MaxSamples == 2

\* the virtual timestamp, counted in sample_dt, stays below this
MaxTime == 2

(***************************************************************************)
(* dicer.c: action classes                                                 *)
(***************************************************************************)
CUE == 0
LOOP == 1
ROLL == 2
NOTE == 3

ActionClasses == {CUE, LOOP, ROLL, NOTE}

\* struct deck instances the controller can be bound to
Decks == {"deckA", "deckB"}

\* d->deck after dicer_init: malloc'ed storage never assigned
Unbound == "unbound"

\* a deck pointer that refers to no deck at all
Wild == "wild"

(***************************************************************************)
(* MIDI input alphabet: 3-byte messages <<status, data1, data2>>.          *)
(* 0x90 = 144, 0x91 = 145; 0x24..0x27 = 36..39; 0x28,0x29 = 40,41;         *)
(* 0x30,0x31 = 48,49; 0x3C = 60.                                           *)
(***************************************************************************)
Data2Values == {0, 127}

Data1Values(status) ==
    IF status = 145 THEN (34 .. 51) \cup {60}
    ELSE IF status = 144 THEN {48, 60, 72}
    ELSE {36, 40, 60}

StatusValues == {128, 144, 145, 146}

Messages ==
    UNION { { <<s, d1, d2>> : d1 \in Data1Values(s), d2 \in Data2Values } :
            s \in StatusValues }

\* the messages on the wire when the drain loop itself is examined
DrainMessages ==
    { <<145, 36, 127>>, <<145, 48, 127>>, <<145, 42, 0>>, <<144, 72, 0>>,
      <<128, 36, 127>> }

\* button arguments for direct calls of event_decoded
ButtonValues == {0, 1, 3, 60, 72}

VARIABLES
    \* ---- dicer.c ----
    deck,           \* d->deck
    nominal_pitch,  \* deck -> player.nominal_pitch, as a semitone exponent
    msg,            \* buf[3] of the latest event() call
    decoded,        \* arguments of the latest event_decoded() call
    ops,            \* deck operations invoked by the latest event()/event_decoded()
    rtpc,           \* realtime(): "idle", "loop", "returned"
    z,              \* realtime(): result of the latest midi_read
    rtRet,          \* realtime(): return value
    nread,          \* messages midi_read has delivered in this realtime() call
    evLog           \* arrival numbers of the messages handed to event() in this call

VARIABLES
    \* ---- player.c: struct player ----
    position,        \* pl->position
    pitch,           \* pl->pitch
    last_position,   \* pl->last_position
    timestamp,       \* pl->timestamp, in units of sample_dt
    offset,          \* pl->offset
    target_position, \* pl->target_position
    last_difference, \* pl->last_difference
    sync_pitch,      \* pl->sync_pitch, the ratio num / den
    recalibrate,     \* pl->recalibrate
    timecode_control,\* pl->timecode_control
    track,           \* pl->track
    lock,            \* pl->lock: "free", or the thread holding it
    scqueue,         \* pl->scqueue, the Input Queue
    refcount,        \* track -> its reference count
    \* ---- audio thread, in player_collect ----
    apc,             \* "idle", "rendering", "built" (lock held, block rendered),
                     \* "rendered", "skipped"
    totalSamples,    \* argument of the latest player_collect call
    pcm,             \* the output buffer: per frame, the track it was rendered from
    sIdx,            \* local s of build_pcm: the samples of this block rendered so far
    \* ---- I/O thread, in player_set_track or player_clone ----
    iopc,            \* "idle", "call", "locked", "swapped", "unlocked", "cl_..."
    iotrack,         \* argument track, or local t of player_clone
    iox,             \* local x
    \* ---- the player that player_clone copies from ----
    from             \* from->position, from->offset, from->track

dicerVars == <<deck, nominal_pitch, msg, decoded, ops, rtpc, z, rtRet, nread, evLog>>

renderVars == <<position, pitch, last_position, timestamp>>

syncVars == <<offset, target_position, last_difference, sync_pitch, recalibrate,
              timecode_control>>

audioVars == <<apc, totalSamples, pcm, sIdx>>

ioVars == <<iopc, iotrack, iox, from>>

playerVars == <<renderVars, syncVars, track, lock, scqueue, refcount, audioVars, ioVars>>

vars == <<dicerVars, playerVars>>

NoMsg == <<0, 0, 0>>

NotDecoded ==
    [called |-> FALSE, deck |-> Unbound, action |-> CUE, shift |-> FALSE,
     button |-> 0, on |-> FALSE]

(***************************************************************************)
(* dicer.c: event_decoded                                                  *)
(***************************************************************************)
\* event_decoded without its "if (shift) return;"
EventDecodedNoShiftReturn(d, action, shift, button, on) ==
    LET unset == IF shift /\ on THEN << <<"unsetCue", d, button>> >> ELSE << >>
        cue   == IF action = CUE /\ on THEN << <<"setCue", d, button>> >> ELSE << >>
        loop  == IF action = LOOP
                 THEN IF on THEN << <<"punchIn", d, button>> >>
                            ELSE << <<"punchOut", d>> >>
                 ELSE << >>
        note  == IF action = NOTE
                 THEN << <<"nominal_pitch", d, button - 60>> >>
                 ELSE << >>
    IN  unset \o cue \o loop \o note

\* event_decoded whose CUE branch does not test "on"
EventDecodedCueOnRelease(d, action, shift, button, on) ==
    LET unset == IF shift /\ on THEN << <<"unsetCue", d, button>> >> ELSE << >>
        cue   == IF action = CUE THEN << <<"setCue", d, button>> >> ELSE << >>
        loop  == IF action = LOOP
                 THEN IF on THEN << <<"punchIn", d, button>> >>
                            ELSE << <<"punchOut", d>> >>
                 ELSE << >>
        note  == IF action = NOTE
                 THEN << <<"nominal_pitch", d, button - 60>> >>
                 ELSE << >>
    IN  IF shift THEN unset ELSE unset \o cue \o loop \o note

\* The deck operations event_decoded invokes, in order.  The write of
\* d->player.nominal_pitch is recorded as the entry "nominal_pitch".
EventDecoded(d, action, shift, button, on) ==
    LET unset == IF shift /\ on THEN << <<"unsetCue", d, button>> >> ELSE << >>
        cue   == IF action = CUE /\ on THEN << <<"setCue", d, button>> >> ELSE << >>
        loop  == IF action = LOOP
                 THEN IF on THEN << <<"punchIn", d, button>> >>
                            ELSE << <<"punchOut", d>> >>
                 ELSE << >>
        note  == IF action = NOTE
                 THEN << <<"nominal_pitch", d, button - 60>> >>
                 ELSE << >>
    IN  IF shift THEN unset ELSE unset \o cue \o loop \o note

\* nominal_pitch after the operations in o have run
RECURSIVE PitchAfter(_, _)
PitchAfter(np, o) ==
    IF o = << >> THEN np
    ELSE LET h == Head(o)
             np1 == IF h[1] = "nominal_pitch" /\ h[2] \in Decks
                    THEN [np EXCEPT ![h[2]] = h[3]]
                    ELSE np
         IN  PitchAfter(np1, Tail(o))

(***************************************************************************)
(* dicer.c: event                                                          *)
(***************************************************************************)
\* event() with the unshifted buttons numbered from 0x23
DecodeOffByOne(d, buf, shiftU) ==
    LET status == buf[1]
        data1  == buf[2]
        data2  == buf[3]
        on     == data2 # 0
    IN  IF status = 144
        THEN [called |-> TRUE, deck |-> d, action |-> NOTE, shift |-> shiftU,
              button |-> data1, on |-> on]
        ELSE IF status = 145
        THEN IF data1 \in {36, 37, 38, 39}
             THEN [called |-> TRUE, deck |-> d, action |-> CUE, shift |-> FALSE,
                   button |-> data1 - 35, on |-> on]
             ELSE IF data1 \in {40, 41, 48, 49}
             THEN [called |-> TRUE, deck |-> d, action |-> CUE, shift |-> TRUE,
                   button |-> data1 - 40, on |-> on]
             ELSE [called |-> FALSE, deck |-> Unbound, action |-> CUE,
                   shift |-> FALSE, button |-> 0, on |-> FALSE]
        ELSE [called |-> FALSE, deck |-> Unbound, action |-> CUE,
              shift |-> FALSE, button |-> 0, on |-> FALSE]

\* event() whose data1 switch has no "default: return;"
DecodeNoDefault(d, buf, shiftU) ==
    LET status == buf[1]
        data1  == buf[2]
        data2  == buf[3]
        on     == data2 # 0
    IN  IF status = 144
        THEN [called |-> TRUE, deck |-> d, action |-> NOTE, shift |-> shiftU,
              button |-> data1, on |-> on]
        ELSE IF status = 145
        THEN IF data1 \in {36, 37, 38, 39}
             THEN [called |-> TRUE, deck |-> d, action |-> CUE, shift |-> FALSE,
                   button |-> data1 - 36, on |-> on]
             ELSE IF data1 \in {40, 41, 48, 49}
             THEN [called |-> TRUE, deck |-> d, action |-> CUE, shift |-> TRUE,
                   button |-> data1 - 40, on |-> on]
             ELSE [called |-> TRUE, deck |-> d, action |-> CUE, shift |-> FALSE,
                   button |-> data1, on |-> on]
        ELSE [called |-> FALSE, deck |-> Unbound, action |-> CUE,
              shift |-> FALSE, button |-> 0, on |-> FALSE]

\* The decoding half of event(): the arguments handed to event_decoded, or
\* NotDecoded when event() returns early.  shiftU is the value the local
\* variable shift happens to hold where the code never assigns it.
Decode(d, buf, shiftU) ==
    LET status == buf[1]
        data1  == buf[2]
        data2  == buf[3]
        on     == data2 # 0
    IN  IF status = 144
        THEN [called |-> TRUE, deck |-> d, action |-> NOTE, shift |-> shiftU,
              button |-> data1, on |-> on]
        ELSE IF status = 145
        THEN IF data1 \in {36, 37, 38, 39}
             THEN [called |-> TRUE, deck |-> d, action |-> CUE, shift |-> FALSE,
                   button |-> data1 - 36, on |-> on]
             ELSE IF data1 \in {40, 41, 48, 49}
             THEN [called |-> TRUE, deck |-> d, action |-> CUE, shift |-> TRUE,
                   button |-> data1 - 40, on |-> on]
             ELSE NotDecoded
        ELSE NotDecoded

\* the deck a dispatch through d->deck lands on
Targets == IF deck = Unbound THEN Decks \cup {Wild} ELSE {deck}

\* what an unassigned bool local can hold when event_decoded reads it
Unassigned(buf) == IF buf[1] = 144 THEN BOOLEAN ELSE {FALSE}

\* event(d, buf)
Event(buf) ==
    \E shiftU \in Unassigned(buf), tgt \in Targets :
        LET dec == Decode(tgt, buf, shiftU)
            o   == IF dec.called
                   THEN EventDecoded(dec.deck, dec.action, dec.shift, dec.button, dec.on)
                   ELSE << >>
        IN  /\ msg' = buf
            /\ decoded' = dec
            /\ ops' = o
            /\ nominal_pitch' = PitchAfter(nominal_pitch, o)

(***************************************************************************)
(* dicer.c: add_deck, realtime                                             *)
(***************************************************************************)
AddDeck(k) ==
    /\ deck' = k
    /\ UNCHANGED <<nominal_pitch, msg, decoded, ops, rtpc, z, rtRet, nread, evLog>>
    /\ UNCHANGED playerVars

RealtimeCall ==
    /\ rtpc \in {"idle", "returned"}
    /\ rtpc' = "loop"
    /\ nread' = 0
    /\ evLog' = << >>
    /\ UNCHANGED <<deck, nominal_pitch, msg, decoded, ops, z, rtRet>>
    /\ UNCHANGED playerVars

\* realtime() that reports success whatever midi_read returned
ReturnValueAlwaysZero(zz) == 0

\* the value realtime() returns once midi_read has returned zz (-1 or 0)
ReturnValue(zz) == IF zz = -1 THEN -1 ELSE 0

\* midi_read returns -1
RealtimeReadError ==
    /\ rtpc = "loop"
    /\ z' = -1
    /\ rtRet' = ReturnValue(-1)
    /\ rtpc' = "returned"
    /\ UNCHANGED <<deck, nominal_pitch, msg, decoded, ops, nread, evLog>>
    /\ UNCHANGED playerVars

\* midi_read returns 0
RealtimeReadNone ==
    /\ rtpc = "loop"
    /\ z' = 0
    /\ rtRet' = ReturnValue(0)
    /\ rtpc' = "returned"
    /\ UNCHANGED <<deck, nominal_pitch, msg, decoded, ops, nread, evLog>>
    /\ UNCHANGED playerVars

\* the messages of this call that event() is run on, given that message
\* number n has just been read
EventLogAfter(log, n) == Append(log, n)

\* midi_read returns a message
RealtimeReadMsg(buf) ==
    /\ rtpc = "loop"
    /\ nread < MaxMsgs
    /\ z' = 3
    /\ nread' = nread + 1
    /\ evLog' = EventLogAfter(evLog, nread + 1)
    /\ Event(buf)
    /\ UNCHANGED <<deck, rtpc, rtRet>>
    /\ UNCHANGED playerVars

\* a direct call event_decoded(d, action, shift, button, on)
EventDecodedCall(d, action, shift, button, on) ==
    LET o == EventDecoded(d, action, shift, button, on)
    IN  /\ decoded' = [called |-> TRUE, deck |-> d, action |-> action,
                       shift |-> shift, button |-> button, on |-> on]
        /\ ops' = o
        /\ nominal_pitch' = PitchAfter(nominal_pitch, o)
        /\ UNCHANGED <<deck, msg, rtpc, z, rtRet, nread, evLog>>
        /\ UNCHANGED playerVars

(***************************************************************************)
(* player.c                                                                *)
(***************************************************************************)
Tracks == {"t1", "t2"}

Positions == 0 .. MaxPos

Abs(x) == IF x < 0 THEN -x ELSE x

Min(a, b) == IF a < b THEN a ELSE b

\* the frame of a buffer no call has written yet
Untouched == "none"

\* InterpolateQueue(pl->scqueue, &pl->timestamp, &is.target_position): the next
\* entry of the Input Queue, if there is one
InterpolateQueue(q) ==
    IF q = << >>
    THEN [ok |-> FALSE, target_position |-> 0, rest |-> q]
    ELSE [ok |-> TRUE, target_position |-> Head(q).target_position, rest |-> Tail(q)]

\* build_pcm whose underflow branch stalls instead of extrapolating
RenderSampleStall(st, frame, trk) ==
    LET iq == InterpolateQueue(st.scqueue)
    IN  IF iq.ok
        THEN [st EXCEPT !.position = iq.target_position,
                        !.pitch = iq.target_position - st.last_position,
                        !.last_position = iq.target_position,
                        !.timestamp = st.timestamp + 1,
                        !.scqueue = iq.rest,
                        !.pcm = [st.pcm EXCEPT ![frame] = trk]]
        ELSE [st EXCEPT !.pitch = 0,
                        !.pcm = [st.pcm EXCEPT ![frame] = trk]]

\* build_pcm that takes the pitch from the position the step started at
RenderSampleFromPosition(st, frame, trk) ==
    LET iq == InterpolateQueue(st.scqueue)
    IN  IF iq.ok
        THEN [st EXCEPT !.position = iq.target_position,
                        !.pitch = iq.target_position - st.position,
                        !.last_position = iq.target_position,
                        !.timestamp = st.timestamp + 1,
                        !.scqueue = iq.rest,
                        !.pcm = [st.pcm EXCEPT ![frame] = trk]]
        ELSE [st EXCEPT !.position = st.position + st.pitch,
                        !.pcm = [st.pcm EXCEPT ![frame] = trk]]

\* one pass of the for loop of build_pcm: frame is s + 1, trk is pl->track
RenderSample(st, frame, trk) ==
    LET iq == InterpolateQueue(st.scqueue)
    IN  IF iq.ok
        THEN [st EXCEPT !.position = iq.target_position,
                        !.pitch = iq.target_position - st.last_position,
                        !.last_position = iq.target_position,
                        !.timestamp = st.timestamp + 1,
                        !.scqueue = iq.rest,
                        !.pcm = [st.pcm EXCEPT ![frame] = trk]]
        ELSE [st EXCEPT !.position = st.position + st.pitch,
                        !.pcm = [st.pcm EXCEPT ![frame] = trk]]

\* build_pcm(pl, pcm, samples, looping), from loop index s on
RECURSIVE BuildPcm(_, _, _, _)
BuildPcm(st, s, samples, trk) ==
    IF s >= samples THEN st
    ELSE BuildPcm(RenderSample(st, s + 1, trk), s + 1, samples, trk)

\* the part of the player build_pcm works on
RenderState ==
    [position |-> position, pitch |-> pitch, last_position |-> last_position,
     timestamp |-> timestamp, scqueue |-> scqueue, pcm |-> pcm]

SetRenderState(st) ==
    /\ position' = st.position
    /\ pitch' = st.pitch
    /\ last_position' = st.last_position
    /\ timestamp' = st.timestamp
    /\ scqueue' = st.scqueue
    /\ pcm' = st.pcm

\* player_collect may be entered
Callable == {"idle", "rendered", "skipped"}

\* player_collect that renders the block although the lock was not obtained
CollectContendedRender(st, n, trk) == BuildPcm(st, 0, n, trk)

\* player_collect, spin_try_lock failed: the empty branch
CollectContended(st, n, trk) == st

\* player_collect(pl, pcm, n) up to the end of build_pcm: spin_try_lock, then
\* either the empty branch and the return, or build_pcm under the lock
PlayerCollect(n) ==
    /\ apc \in Callable
    /\ totalSamples' = n
    /\ IF lock = "free"
       THEN /\ LET st == BuildPcm(RenderState, 0, n, track)
               IN  /\ st.position \in Positions
                   /\ SetRenderState(st)
            /\ lock' = "audio"
            /\ apc' = "built"
       ELSE /\ SetRenderState(CollectContended(RenderState, n, track))
            /\ lock' = lock
            /\ apc' = "skipped"
    /\ UNCHANGED <<syncVars, track, refcount, sIdx, ioVars, dicerVars>>

\* the lock after player_collect has left its rendering branch
LockAfterCollect == "free"

\* player_collect: spin_unlock and return
CollectUnlock ==
    /\ apc = "built"
    /\ lock' = LockAfterCollect
    /\ apc' = "rendered"
    /\ sIdx' = 0
    /\ UNCHANGED <<renderVars, syncVars, track, scqueue, refcount, totalSamples, pcm,
                   ioVars, dicerVars>>

\* player_collect that goes on to render whoever holds the lock
SpinTryLockAlways(l) == TRUE

\* spin_try_lock(&pl->lock) succeeds
SpinTryLock(l) == l = "free"

\* player_collect(pl, pcm, n), one statement at a time: spin_try_lock, then the
\* empty branch and the return, or the entry into the loop of build_pcm
CollectEnter(n) ==
    /\ apc \in Callable
    /\ totalSamples' = n
    /\ sIdx' = 0
    /\ IF SpinTryLock(lock)
       THEN /\ lock' = "audio"
            /\ apc' = IF n = 0 THEN "built" ELSE "rendering"
       ELSE /\ lock' = lock
            /\ apc' = "skipped"
    /\ UNCHANGED <<renderVars, syncVars, track, scqueue, refcount, pcm, ioVars,
                   dicerVars>>

\* one pass of the loop of build_pcm, reading pl->track as it is at that moment
CollectSample ==
    /\ apc = "rendering"
    /\ LET st == RenderSample(RenderState, sIdx + 1, track)
       IN  /\ st.position \in Positions
           /\ SetRenderState(st)
    /\ sIdx' = sIdx + 1
    /\ apc' = IF sIdx + 1 = totalSamples THEN "built" ELSE "rendering"
    /\ UNCHANGED <<syncVars, track, lock, refcount, totalSamples, ioVars, dicerVars>>

\* the position source appends an entry to the Input Queue
QueuePush(p) ==
    /\ Len(scqueue) < MaxQueue
    /\ timestamp + Len(scqueue) < MaxTime
    /\ scqueue' = Append(scqueue, [target_position |-> p])
    /\ UNCHANGED <<renderVars, syncVars, track, lock, refcount, audioVars, ioVars,
                   from, dicerVars>>

(***************************************************************************)
(* player.c: player_set_track, on the I/O thread                           *)
(***************************************************************************)
\* the caller, holding a reference on t, enters player_set_track(pl, t)
SetTrackCall(t) ==
    /\ iopc = "idle"
    /\ refcount' = [refcount EXCEPT ![t] = @ + 1]
    /\ iotrack' = t
    /\ iopc' = "call"
    /\ UNCHANGED <<renderVars, syncVars, track, lock, scqueue, audioVars, iox, from, dicerVars>>

\* spin_lock(&pl->lock)
SetTrackLock ==
    /\ iopc = "call"
    /\ lock = "free"
    /\ lock' = "io"
    /\ iopc' = "locked"
    /\ UNCHANGED <<renderVars, syncVars, track, scqueue, refcount, audioVars, iotrack,
                   iox, from, dicerVars>>

\* x = pl->track; pl->track = track;
SetTrackSwap ==
    /\ iopc = "locked"
    /\ iox' = track
    /\ track' = iotrack
    /\ iopc' = "swapped"
    /\ UNCHANGED <<renderVars, syncVars, lock, scqueue, refcount, audioVars, iotrack,
                   from, dicerVars>>

\* spin_unlock(&pl->lock)
SetTrackUnlock ==
    /\ iopc = "swapped"
    /\ lock' = "free"
    /\ iopc' = "unlocked"
    /\ UNCHANGED <<renderVars, syncVars, track, scqueue, refcount, audioVars, iotrack,
                   iox, from, dicerVars>>

\* track_release(x)
SetTrackRelease ==
    /\ iopc = "unlocked"
    /\ refcount' = [refcount EXCEPT ![iox] = @ - 1]
    /\ iopc' = "idle"
    /\ UNCHANGED <<renderVars, syncVars, track, lock, scqueue, audioVars, iotrack, iox,
                   from, dicerVars>>

(***************************************************************************)
(* player.c: player_clone, on the I/O thread                               *)
(***************************************************************************)
\* no other player
NoPlayer == [position |-> 0, offset |-> 0, track |-> Untouched]

\* player_clone that copies the offset of the other player
CloneOffsetCopied(pos, f) == f.offset

\* elapsed = from->position - from->offset; the value of pl->position - elapsed
CloneOffset(pos, f) == pos - (f.position - f.offset)

\* player_clone(pl, from) is entered and writes pl->offset
PlayerCloneCall ==
    /\ iopc = "idle"
    /\ from # NoPlayer
    /\ offset' = CloneOffset(position, from)
    /\ iopc' = "cl_offset"
    /\ UNCHANGED <<renderVars, target_position, last_difference, sync_pitch,
                   recalibrate, timecode_control, track, lock, scqueue, refcount,
                   audioVars, iotrack, iox, from, dicerVars>>

\* t = from->track; track_acquire(t)
CloneAcquire ==
    /\ iopc = "cl_offset"
    /\ iotrack' = from.track
    /\ refcount' = [refcount EXCEPT ![from.track] = @ + 1]
    /\ iopc' = "cl_acquired"
    /\ UNCHANGED <<renderVars, syncVars, track, lock, scqueue, audioVars, iox, from,
                   dicerVars>>

\* spin_lock(&pl->lock)
CloneLock ==
    /\ iopc = "cl_acquired"
    /\ lock = "free"
    /\ lock' = "io"
    /\ iopc' = "cl_locked"
    /\ UNCHANGED <<renderVars, syncVars, track, scqueue, refcount, audioVars, iotrack,
                   iox, from, dicerVars>>

\* x = pl->track; pl->track = t;
CloneSwap ==
    /\ iopc = "cl_locked"
    /\ iox' = track
    /\ track' = iotrack
    /\ iopc' = "cl_swapped"
    /\ UNCHANGED <<renderVars, syncVars, lock, scqueue, refcount, audioVars, iotrack,
                   from, dicerVars>>

\* spin_unlock(&pl->lock)
CloneUnlock ==
    /\ iopc = "cl_swapped"
    /\ lock' = "free"
    /\ iopc' = "cl_unlocked"
    /\ UNCHANGED <<renderVars, syncVars, track, scqueue, refcount, audioVars, iotrack,
                   iox, from, dicerVars>>

\* track_release(x) and the return
CloneRelease ==
    /\ iopc = "cl_unlocked"
    /\ refcount' = [refcount EXCEPT ![iox] = @ - 1]
    /\ iopc' = "idle"
    /\ UNCHANGED <<renderVars, syncVars, track, lock, scqueue, audioVars, iotrack, iox,
                   from, dicerVars>>

(***************************************************************************)
(* player.c: retarget and the operations around it                         *)
(***************************************************************************)
Sign(x) == IF x > 0 THEN 1 ELSE IF x < 0 THEN -1 ELSE 0

RECURSIVE GCD(_, _)
GCD(a, b) == IF b = 0 THEN a ELSE GCD(b, a % b)

\* the double n / d, kept exact: a fraction in lowest terms with a positive
\* denominator, and den = 0 for the infinity a division by zero yields
Quotient(n, d) ==
    IF d = 0
    THEN [num |-> Sign(n), den |-> 0]
    ELSE LET g == GCD(Abs(n), Abs(d))
         IN  [num |-> Sign(n) * Sign(d) * (Abs(n) \div g), den |-> Abs(d) \div g]

\* retarget whose calibration moves position and leaves offset alone
RetargetNoOffset(pos, off, tgt, pit, sp, recal) ==
    LET pos1 == IF recal THEN tgt ELSE pos
        diff == pos1 - tgt
    IN  [position |-> IF 8 * Abs(diff) > Scale THEN tgt ELSE pos1,
         offset |-> off,
         last_difference |-> diff,
         sync_pitch |-> IF 8 * Abs(diff) > Scale THEN sp
                        ELSE IF 20 * Abs(pit) > Scale
                        THEN Quotient(pit, 2 * diff + pit)
                        ELSE sp]

\* retarget that returns once it has calibrated
RetargetCalibrateOnly(pos, off, tgt, pit, sp, recal) ==
    LET diff == pos - tgt
    IN  IF recal
        THEN [position |-> tgt, offset |-> off + (tgt - pos), last_difference |-> 0,
              sync_pitch |-> sp]
        ELSE [position |-> IF 8 * Abs(diff) > Scale THEN tgt ELSE pos,
              offset |-> off,
              last_difference |-> diff,
              sync_pitch |-> IF 8 * Abs(diff) > Scale THEN sp
                             ELSE IF 20 * Abs(pit) > Scale
                             THEN Quotient(pit, 2 * diff + pit)
                             ELSE sp]

\* retarget with the two tests in the other order: the pitch test first
RetargetPitchFirst(pos, off, tgt, pit, sp, recal) ==
    LET pos1 == IF recal THEN tgt ELSE pos
        off1 == IF recal THEN off + (tgt - pos) ELSE off
        diff == pos1 - tgt
    IN  [position |-> IF 20 * Abs(pit) > Scale THEN pos1
                      ELSE IF 8 * Abs(diff) > Scale THEN tgt ELSE pos1,
         offset |-> off1,
         last_difference |-> diff,
         sync_pitch |-> IF 20 * Abs(pit) > Scale
                        THEN Quotient(pit, 2 * diff + pit)
                        ELSE sp]

\* retarget(pl): calibrate_to_timecode_position when recalibrate is set, then
\* the hard seek (|diff| > SKIP_THRESHOLD = 1/8) or the sync pitch
\* (|pitch| > SYNC_PITCH = 0.05, diff / SYNC_TIME = 2 * diff)
RetargetResult(pos, off, tgt, pit, sp, recal) ==
    LET pos1 == IF recal THEN tgt ELSE pos
        off1 == IF recal THEN off + (tgt - pos) ELSE off
        diff == pos1 - tgt
    IN  [position |-> IF 8 * Abs(diff) > Scale THEN tgt ELSE pos1,
         offset |-> off1,
         last_difference |-> diff,
         sync_pitch |-> IF 8 * Abs(diff) > Scale THEN sp
                        ELSE IF 20 * Abs(pit) > Scale
                        THEN Quotient(pit, 2 * diff + pit)
                        ELSE sp]

Retarget ==
    LET r == RetargetResult(position, offset, target_position, pitch, sync_pitch,
                            recalibrate)
    IN  /\ Abs(r.offset) <= 2 * MaxPos
        /\ position' = r.position
        /\ offset' = r.offset
        /\ last_difference' = r.last_difference
        /\ sync_pitch' = r.sync_pitch
        /\ recalibrate' = FALSE
        /\ UNCHANGED <<pitch, last_position, timestamp, target_position,
                       timecode_control, track, lock, scqueue, refcount, audioVars,
                       ioVars, dicerVars>>

\* handleInput(pl, state)
HandleInput(ts, tp) ==
    /\ timestamp' = ts
    /\ target_position' = tp
    /\ UNCHANGED <<position, pitch, last_position, offset, last_difference, sync_pitch,
                   recalibrate, timecode_control, track, lock, scqueue, refcount,
                   audioVars, ioVars, dicerVars>>

\* player_set_timecode_control(pl, on)
PlayerSetTimecodeControl(on) ==
    /\ recalibrate' = IF on /\ ~timecode_control THEN TRUE ELSE recalibrate
    /\ timecode_control' = on
    /\ UNCHANGED <<renderVars, offset, target_position, last_difference, sync_pitch,
                   track, lock, scqueue, refcount, audioVars, ioVars, dicerVars>>

\* player_toggle_timecode_control that asks for a recalibration on every call
PlayerToggleAlwaysRecalibrate ==
    /\ timecode_control' = ~timecode_control
    /\ recalibrate' = TRUE
    /\ UNCHANGED <<renderVars, offset, target_position, last_difference, sync_pitch,
                   track, lock, scqueue, refcount, audioVars, ioVars, dicerVars>>

\* player_toggle_timecode_control(pl)
PlayerToggleTimecodeControl ==
    /\ timecode_control' = ~timecode_control
    /\ recalibrate' = IF ~timecode_control THEN TRUE ELSE recalibrate
    /\ UNCHANGED <<renderVars, offset, target_position, last_difference, sync_pitch,
                   track, lock, scqueue, refcount, audioVars, ioVars, dicerVars>>

\* player_set_timecoder(pl, tc)
PlayerSetTimecoder ==
    /\ recalibrate' = TRUE
    /\ timecode_control' = TRUE
    /\ UNCHANGED <<renderVars, offset, target_position, last_difference, sync_pitch,
                   track, lock, scqueue, refcount, audioVars, ioVars, dicerVars>>

\* player_set_internal_playback(pl): pitch = 1.0
PlayerSetInternalPlayback ==
    /\ timecode_control' = FALSE
    /\ pitch' = Scale
    /\ UNCHANGED <<position, last_position, timestamp, offset, target_position,
                   last_difference, sync_pitch, recalibrate, track, lock, scqueue,
                   refcount, audioVars, ioVars, dicerVars>>

\* player_recue(pl)
PlayerRecue ==
    /\ offset' = position
    /\ UNCHANGED <<renderVars, target_position, last_difference, sync_pitch,
                   recalibrate, timecode_control, track, lock, scqueue, refcount,
                   audioVars, ioVars, dicerVars>>

\* player_seek_to(pl, seconds)
PlayerSeekTo(seconds) ==
    /\ offset' = position - seconds
    /\ UNCHANGED <<renderVars, target_position, last_difference, sync_pitch,
                   recalibrate, timecode_control, track, lock, scqueue, refcount,
                   audioVars, ioVars, dicerVars>>

(***************************************************************************)
(* Specifications                                                          *)
(***************************************************************************)
InitDicer ==
    /\ deck = Unbound
    /\ nominal_pitch = [d \in Decks |-> 0]
    /\ msg = NoMsg
    /\ decoded = NotDecoded
    /\ ops = << >>
    /\ rtpc = "idle"
    /\ z = 0
    /\ rtRet = 0
    /\ nread = 0
    /\ evLog = << >>

\* player_init(pl, sample_rate, track).  It assigns neither last_position nor
\* recalibrate nor timecode_control: lp, rc and tc are what the storage held.
\* f is the other player there is to clone from, holding its own reference
\* on its track.
InitPlayer(lp, rc, tc, q, pos, pit, f) ==
    /\ position = pos
    /\ pitch = pit
    /\ last_position = lp
    /\ timestamp = 0
    /\ offset = 0
    /\ target_position = 0
    /\ last_difference = 0
    /\ sync_pitch = [num |-> 1, den |-> 1]
    /\ recalibrate = rc
    /\ timecode_control = tc
    /\ track = "t1"
    /\ lock = "free"
    /\ scqueue = q
    /\ refcount = [t \in Tracks |-> (IF t = "t1" THEN 1 ELSE 0)
                                     + (IF t = f.track THEN 1 ELSE 0)]
    /\ apc = "idle"
    /\ totalSamples = 0
    /\ pcm = [i \in 1 .. MaxSamples |-> Untouched]
    /\ sIdx = 0
    /\ iopc = "idle"
    /\ iotrack = "t1"
    /\ iox = "t1"
    /\ from = f

\* the controller just initialised, next to a player in zeroed storage
Init == InitDicer /\ InitPlayer(0, FALSE, FALSE, << >>, 0, 0, NoPlayer)

\* the controller driven through its operation table
NextDicer ==
    \/ \E k \in Decks : AddDeck(k)
    \/ RealtimeCall
    \/ RealtimeReadError
    \/ RealtimeReadNone
    \/ \E buf \in Messages : RealtimeReadMsg(buf)

SpecDicer == Init /\ [][NextDicer]_vars

\* one pass of the for (;;) loop of realtime()
RealtimeRead ==
    \/ RealtimeReadError
    \/ RealtimeReadNone
    \/ \E buf \in DrainMessages : RealtimeReadMsg(buf)

NextDrain ==
    \/ \E k \in Decks : AddDeck(k)
    \/ RealtimeCall
    \/ RealtimeRead

\* the thread that called realtime() keeps running it: the loop is not
\* abandoned between two reads
FairDicer == Init /\ [][NextDrain]_vars /\ WF_vars(RealtimeRead)

\* event_decoded driven directly over all its arguments
NextDecoded ==
    \E d \in Decks, a \in ActionClasses, s \in BOOLEAN, b \in ButtonValues, on \in BOOLEAN :
        EventDecodedCall(d, a, s, b, on)

SpecDecoded == Init /\ [][NextDecoded]_vars

(***************************************************************************)
(* Claims about dicer.c                                                    *)
(***************************************************************************)
Op(name, d, arg) == << <<name, d, arg>> >>

\* the step is one run of event() inside realtime()
EventStep == rtpc = "loop" /\ nread' = nread + 1

\* C1: event_decoded with shift asserted invokes exactly unsetCue(button) on a
\* press and nothing on a release, whatever the action class; the nominal
\* pitch is not written.
C1_ShiftedDispatch ==
    [][ (decoded'.called /\ decoded'.shift) =>
          /\ ops' = IF decoded'.on
                    THEN Op("unsetCue", decoded'.deck, decoded'.button)
                    ELSE << >>
          /\ nominal_pitch' = nominal_pitch ]_vars

C1_Witness ==
    /\ decoded.called /\ decoded.shift /\ decoded.on
    /\ decoded.action = CUE
    /\ ops = Op("unsetCue", decoded.deck, decoded.button)

\* C2: event_decoded without shift: a CUE press invokes exactly setCue(button),
\* a CUE release nothing, a LOOP press exactly punchIn(button), a LOOP release
\* exactly punchOut(); none of them writes the nominal pitch.
C2_UnshiftedDispatch ==
    [][ (decoded'.called /\ ~decoded'.shift /\ decoded'.action \in {CUE, LOOP}) =>
          /\ ops' = IF decoded'.action = CUE
                    THEN IF decoded'.on
                         THEN Op("setCue", decoded'.deck, decoded'.button)
                         ELSE << >>
                    ELSE IF decoded'.on
                         THEN Op("punchIn", decoded'.deck, decoded'.button)
                         ELSE << <<"punchOut", decoded'.deck>> >>
          /\ nominal_pitch' = nominal_pitch ]_vars

C2_Witness ==
    /\ decoded.called /\ ~decoded.shift /\ ~decoded.on
    /\ decoded.action = LOOP /\ decoded.button = 3
    /\ ops = << <<"punchOut", decoded.deck>> >>

\* C3: every 0x91 message the decoder takes as shifted carries a button index
\* in 0..3, and a press of it invokes exactly unsetCue on that index.
C3_ShiftedRange ==
    (decoded.called /\ msg[1] = 145 /\ decoded.shift) =>
        /\ decoded.button \in 0 .. 3
        /\ decoded.on => ops = Op("unsetCue", decoded.deck, decoded.button)

\* C4: (0x91, 0x24 + b, data2) with b in 0..3 is decoded as (CUE, unshifted,
\* b, data2 # 0); a press invokes exactly setCue(b) on the bound deck and a
\* release invokes nothing.
C4_UnshiftedRange ==
    [][ (EventStep /\ msg'[1] = 145 /\ msg'[2] \in 36 .. 39) =>
          /\ decoded'.called
          /\ decoded'.action = CUE
          /\ ~decoded'.shift
          /\ decoded'.button = msg'[2] - 36
          /\ decoded'.on = (msg'[3] # 0)
          /\ deck \in Decks => decoded'.deck = deck
          /\ ops' = IF msg'[3] # 0
                    THEN Op("setCue", decoded'.deck, msg'[2] - 36)
                    ELSE << >>
          /\ nominal_pitch' = nominal_pitch ]_vars

C4_Witness ==
    /\ msg = <<145, 38, 127>>
    /\ deck \in Decks
    /\ ops = Op("setCue", deck, 2)

DeckOps == {"setCue", "unsetCue", "punchIn", "punchOut"}

\* C5: a 0x90 message invokes none of setCue, unsetCue, punchIn, punchOut; its
\* only effect is the write of the nominal pitch.
C5_NoteOnlyPitch ==
    (decoded.called /\ msg[1] = 144) =>
        /\ \A i \in 1 .. Len(ops) : ops[i][1] \notin DeckOps
        /\ ops = Op("nominal_pitch", decoded.deck, msg[2] - 60)

\* C6: a message whose status is neither 0x90 nor 0x91, or a 0x91 message whose
\* data1 is in neither accepted range, invokes nothing, leaves the nominal
\* pitch and the binding alone, and realtime() stays in its loop without
\* setting an error return.
C6_Discarded ==
    [][ (/\ EventStep
         /\ \/ msg'[1] \notin {144, 145}
            \/ msg'[1] = 145 /\ msg'[2] \notin {36, 37, 38, 39, 40, 41, 48, 49}) =>
          /\ ~decoded'.called
          /\ ops' = << >>
          /\ nominal_pitch' = nominal_pitch
          /\ deck' = deck
          /\ rtpc' = "loop"
          /\ rtRet' = rtRet ]_vars

C6_Witness ==
    /\ rtpc = "loop"
    /\ nread = 2
    /\ msg = <<145, 42, 127>>
    /\ ops = << >>

\* C7: in one realtime() call every message read is handed to event() exactly
\* once in arrival order; the call returns 0 when the read that ends it
\* reported no data and -1 when it reported an error; after the return nothing
\* more is read or dispatched; and the call returns.
C7_Drain ==
    /\ [](rtpc # "idle" => /\ Len(evLog) = nread
                           /\ \A i \in 1 .. nread : evLog[i] = i)
    /\ [](rtpc = "returned" => \/ z = 0 /\ rtRet = 0
                               \/ z = -1 /\ rtRet = -1)
    /\ [][ (rtpc = "returned" /\ rtpc' = "returned") =>
             UNCHANGED <<nominal_pitch, msg, decoded, ops, z, rtRet, nread, evLog>> ]_vars
    /\ (rtpc = "loop") ~> (rtpc = "returned")

C7_Witness ==
    /\ rtpc = "returned"
    /\ nread = 2
    /\ evLog = <<1, 2>>
    /\ z = -1
    /\ rtRet = -1

\* C11 (as claimed): every 0x90 message with note n, pressed or released,
\* leaves the nominal pitch of the deck it is dispatched to at
\* 2^((n - 60) / 12), held here as the exponent n - 60: 60 gives 0 (1.0),
\* 72 gives 12 (2.0), 48 gives -12 (0.5).
C11_EqualTempered ==
    [][ (EventStep /\ msg'[1] = 144 /\ decoded'.deck \in Decks) =>
          nominal_pitch'[decoded'.deck] = msg'[2] - 60 ]_vars

\* every three-byte message: any status, any data1, data2 zero or not
AllMessages ==
    { <<status, data1, data2>> : status \in 0 .. 255, data1 \in 0 .. 255,
                                 data2 \in {0, 127} }

Invokes(o, name) == \E i \in 1 .. Len(o) : o[i][1] = name

\* realtime() reads a message whose processing invokes punchIn / punchOut
PunchInRead == \E buf \in AllMessages : RealtimeReadMsg(buf) /\ Invokes(ops', "punchIn")

PunchOutRead == \E buf \in AllMessages : RealtimeReadMsg(buf) /\ Invokes(ops', "punchOut")

\* C12 (as claimed): wherever realtime() is about to read, there is a
\* three-byte message whose processing invokes punchIn on the deck, and one
\* whose processing invokes punchOut.
C12_PunchReachable ==
    (rtpc = "loop" /\ nread < MaxMsgs) => ENABLED PunchInRead /\ ENABLED PunchOutRead

\* C19 (as claimed): whenever event() dispatches, d->deck holds the deck the
\* most recent add_deck stored, and the dispatch goes to that deck; a message
\* read before any add_deck is not dispatched through the unassigned d->deck.
C19_BoundDispatch ==
    [][ (EventStep /\ decoded'.called) =>
          /\ deck \in Decks
          /\ decoded'.deck = deck ]_vars

(***************************************************************************)
(* Specifications of the player                                            *)
(***************************************************************************)
\* the render path fed by the position source, no other thread
NextRender ==
    \/ \E p \in Positions : QueuePush(p)
    \/ \E n \in 0 .. MaxSamples : PlayerCollect(n)
    \/ CollectUnlock

\* last_position is read by the first entry taken before anything assigns it
InitRender ==
    /\ InitDicer
    /\ \E lp \in Positions : InitPlayer(lp, FALSE, FALSE, << >>, 0, 0, NoPlayer)

SpecRender == InitRender /\ [][NextRender]_vars

\* the Input Queue as the position source has left it: empty, or one entry
QueueContents ==
    { << >> } \cup { << [target_position |-> p] >> : p \in Positions }

\* a player whose Input Queue has been filled, rendered by the audio thread
\* while the I/O thread changes its track
InitCollect ==
    /\ InitDicer
    /\ \E lp \in Positions, q \in QueueContents :
           InitPlayer(lp, FALSE, FALSE, q, 0, 0, NoPlayer)

NextCollect ==
    \/ \E n \in 0 .. MaxSamples : PlayerCollect(n)
    \/ CollectUnlock
    \/ \E t \in Tracks : SetTrackCall(t)
    \/ SetTrackLock
    \/ SetTrackSwap
    \/ SetTrackUnlock
    \/ SetTrackRelease

SpecCollect == InitCollect /\ [][NextCollect]_vars

\* a player that rendering has left at some position and pitch, driven by the
\* synchronisation source
InitSync ==
    /\ InitDicer
    /\ \E rc \in BOOLEAN, tc \in BOOLEAN, pos \in Positions, pit \in -MaxPos .. MaxPos :
           InitPlayer(0, rc, tc, << >>, pos, pit, NoPlayer)

NextSync ==
    \/ \E tp \in Positions : HandleInput(MaxTime, tp)
    \/ Retarget
    \/ \E on \in BOOLEAN : PlayerSetTimecodeControl(on)
    \/ PlayerToggleTimecodeControl
    \/ PlayerSetTimecoder
    \/ PlayerSetInternalPlayback
    \/ PlayerRecue
    \/ \E sec \in {0, MaxPos} : PlayerSeekTo(sec)

SpecSync == InitSync /\ [][NextSync]_vars

\* the other players there can be to clone from
FromPlayers == [position : Positions, offset : {0, 1}, track : Tracks]

\* a player at rest at some position next to another player, with the I/O
\* thread cloning or loading tracks while the audio thread collects
InitClone ==
    /\ InitDicer
    /\ \E pos \in Positions, f \in FromPlayers :
           InitPlayer(0, FALSE, FALSE, << >>, pos, 0, f)

NextClone ==
    \/ PlayerCloneCall
    \/ CloneAcquire
    \/ CloneLock
    \/ CloneSwap
    \/ CloneUnlock
    \/ CloneRelease
    \/ \E t \in Tracks : SetTrackCall(t)
    \/ SetTrackLock
    \/ SetTrackSwap
    \/ SetTrackUnlock
    \/ SetTrackRelease
    \/ PlayerCollect(MaxSamples)
    \/ CollectUnlock

SpecClone == InitClone /\ [][NextClone]_vars

\* a player at rest next to another player: the audio thread collects sample
\* by sample while the I/O thread loads tracks and clones
InitTracks ==
    /\ InitDicer
    /\ \E t \in Tracks :
           InitPlayer(0, FALSE, FALSE, << >>, 0, 0,
                      [position |-> 0, offset |-> 0, track |-> t])

NextTracks ==
    \/ \E n \in 0 .. MaxSamples : CollectEnter(n)
    \/ CollectSample
    \/ CollectUnlock
    \/ \E t \in Tracks : SetTrackCall(t)
    \/ SetTrackLock
    \/ SetTrackSwap
    \/ SetTrackUnlock
    \/ SetTrackRelease
    \/ PlayerCloneCall
    \/ CloneAcquire
    \/ CloneLock
    \/ CloneSwap
    \/ CloneUnlock
    \/ CloneRelease

SpecTracks == InitTracks /\ [][NextTracks]_vars

(***************************************************************************)
(* Claims about player.c                                                   *)
(***************************************************************************)
\* frames 1 .. n of the output buffer have been rendered
Rendered(buf, n) == \A i \in 1 .. n : buf[i] \in Tracks

\* C8: player_collect entered while another thread holds the lock returns at
\* once: it writes no frame, takes no Input Queue entry and leaves position,
\* pitch, timestamp and the lock as they were; when it obtains the lock it
\* renders the block, and it no longer holds the lock once it has returned.
C8_CollectContention ==
    /\ [][ ((\E n \in 0 .. MaxSamples : PlayerCollect(n)) /\ lock # "free") =>
             /\ apc' = "skipped"
             /\ UNCHANGED <<pcm, scqueue, position, pitch, timestamp, lock>> ]_vars
    /\ [][ ((\E n \in 0 .. MaxSamples : PlayerCollect(n)) /\ lock = "free") =>
             /\ apc' = "built"
             /\ lock' = "audio"
             /\ Rendered(pcm', totalSamples') ]_vars
    /\ [](apc \in Callable => lock # "audio")

C8_Witness ==
    /\ apc = "skipped"
    /\ lock = "io"
    /\ totalSamples = MaxSamples
    /\ scqueue # << >>
    /\ pcm[1] = Untouched

\* C9: rendering N samples while the Input Queue yields nothing advances
\* position by exactly N * pitch and leaves pitch and timestamp as they were,
\* whether the run is a whole block or follows the last entry taken in it.
C9_DeadReckoning ==
    [][ ((\E n \in 0 .. MaxSamples : PlayerCollect(n)) /\ lock = "free") =>
          LET k == Min(totalSamples', Len(scqueue))
              N == totalSamples' - k
          IN  /\ k = 0 => /\ position' = position + N * pitch
                          /\ pitch' = pitch
                          /\ timestamp' = timestamp
              /\ k > 0 => /\ position' = scqueue[k].target_position + N * pitch'
                          /\ timestamp' = timestamp + k ]_vars

C9_Witness ==
    /\ apc = "built"
    /\ totalSamples = 2
    /\ scqueue = << >>
    /\ pitch = 1
    /\ position = last_position + 2
    /\ timestamp = 2

\* C10: retarget entered with recalibrate clear and |position -
\* target_position| > 1/8 leaves position equal to target_position whatever
\* the pitch, and leaves offset and sync_pitch as they were.
C10_HardSeek ==
    [][ (Retarget /\ ~recalibrate /\ 8 * Abs(position - target_position) > Scale) =>
          /\ position' = target_position
          /\ offset' = offset
          /\ sync_pitch' = sync_pitch ]_vars

C10_Witness ==
    /\ 8 * Abs(last_difference) > Scale
    /\ position = target_position
    /\ 20 * Abs(pitch) > Scale
    /\ ~recalibrate


\* player_collect renders under the lock
CollectRender == (\E n \in 0 .. MaxSamples : PlayerCollect(n)) /\ lock = "free"

\* C13 (as claimed), in the case the claim singles out, a step after an
\* earlier entry has been taken: a render step that obtains a queue entry
\* leaves position at the entry's target_position, pitch at that new position
\* minus the position held immediately before the step, and timestamp
\* advanced by exactly one sample_dt.
C13_PitchFromPosition ==
    [][ (CollectRender /\ totalSamples' = 1 /\ scqueue # << >> /\ timestamp > 0) =>
          /\ position' = Head(scqueue).target_position
          /\ pitch' = position' - position
          /\ timestamp' = timestamp + 1 ]_vars

\* C13 (amended): a render step that obtains a queue entry leaves position at
\* the entry's target_position, pitch at that new position minus
\* last_position (the target_position of the entry taken before it, whatever
\* dead-reckoning steps came in between; before any entry, what player_init
\* left there), last_position at the new position and timestamp advanced by
\* exactly one sample_dt; so for each of the k entries taken in one block.
C13_PitchFromLastEntry ==
    [][ (CollectRender /\ totalSamples' > 0 /\ scqueue # << >>) =>
          LET k    == Min(totalSamples', Len(scqueue))
              tp   == scqueue[k].target_position
              prev == IF k = 1 THEN last_position ELSE scqueue[k - 1].target_position
          IN  /\ totalSamples' = k => position' = tp
              /\ pitch' = tp - prev
              /\ last_position' = tp
              /\ timestamp' = timestamp + k ]_vars

\* entry 1 taken, one dead-reckoned sample, then entry 3 taken
C13_Witness ==
    /\ apc = "built"
    /\ totalSamples = 1
    /\ timestamp = 2
    /\ position = 3
    /\ last_position = 3
    /\ pitch = 2


\* C14: retarget entered with recalibrate set returns with position equal to
\* target_position, offset moved by the same amount as position so that the
\* elapsed time position - offset is what it was, and recalibrate clear.
C14_Recalibration ==
    [][ (Retarget /\ recalibrate) =>
          /\ position' = target_position
          /\ offset' - offset = position' - position
          /\ position' - offset' = position - offset
          /\ ~recalibrate' ]_vars

\* position 1 (elapsed 1) calibrated onto target 3
C14_Witness ==
    /\ ~recalibrate
    /\ last_difference = 0
    /\ position = 3
    /\ target_position = 3
    /\ offset = 2

\* position - target_position as retarget finds it on entry
EntryDiff == position - target_position

\* C15 (as claimed): retarget writes sync_pitch only when recalibrate was clear
\* on entry, |diff| <= 1/8 and |pitch| > 0.05, and then to
\* pitch / (diff / 0.5 + pitch); in every other case, recalibrate set on entry
\* included, sync_pitch is unchanged; position and pitch never depend on it.
C15_SyncPitchFrame ==
    [][ Retarget =>
          /\ sync_pitch' = IF /\ ~recalibrate
                              /\ 8 * Abs(EntryDiff) <= Scale
                              /\ 20 * Abs(pitch) > Scale
                           THEN Quotient(pitch, 2 * EntryDiff + pitch)
                           ELSE sync_pitch
          /\ pitch' = pitch
          /\ position' \in {position, target_position} ]_vars

\* C15 (amended): retarget writes sync_pitch exactly when |pitch| > 0.05 and
\* the difference it computes after the optional calibration is at most 1/8:
\* with recalibrate clear on entry and |diff| <= 1/8 it becomes
\* pitch / (diff / 0.5 + pitch), and with recalibrate set on entry the
\* difference is 0 and it becomes pitch / pitch; on a hard seek or with
\* |pitch| <= 0.05 it is unchanged; position and pitch never depend on it.
C15_SyncPitchWritten ==
    [][ Retarget =>
          LET diff == IF recalibrate THEN 0 ELSE EntryDiff
          IN  /\ sync_pitch' = IF 8 * Abs(diff) <= Scale /\ 20 * Abs(pitch) > Scale
                               THEN Quotient(pitch, 2 * diff + pitch)
                               ELSE sync_pitch
              /\ pitch' = pitch
              /\ position' = IF recalibrate \/ 8 * Abs(diff) > Scale
                             THEN target_position ELSE position ]_vars

\* the gradual case: pitch 3/8, position 1/8 s ahead of the target
C15_Witness ==
    /\ ~recalibrate
    /\ pitch = 3
    /\ last_difference = 1
    /\ position = target_position + 1
    /\ sync_pitch = [num |-> 3, den |-> 5]

\* C16: a player_set_timecode_control or player_toggle_timecode_control call
\* sets recalibrate exactly when it takes timecode_control from off to on, and
\* otherwise leaves it as it was; once set, recalibrate stays set through
\* every operation but retarget, and that retarget leaves position at
\* target_position and recalibrate clear.
C16_ControlEdge ==
    /\ [][ ((\E on \in BOOLEAN : PlayerSetTimecodeControl(on))
            \/ PlayerToggleTimecodeControl) =>
             recalibrate' = (recalibrate \/ (~timecode_control /\ timecode_control')) ]_vars
    /\ [][ (recalibrate /\ ~Retarget) => recalibrate' ]_vars
    /\ [][ (recalibrate /\ Retarget) =>
             position' = target_position /\ ~recalibrate' ]_vars

\* a retarget has run and control has been enabled again since
C16_Witness ==
    /\ recalibrate
    /\ timecode_control
    /\ last_difference # 0
    /\ position # target_position

\* C20 (as claimed): whenever retarget takes the sync-pitch branch
\* (|diff| <= 1/8, |pitch| > 0.05) the divisor diff / SYNC_TIME + pitch is
\* not zero, so the sync_pitch it stores is finite.
C20_DivisorNonZero ==
    [][ Retarget =>
          LET diff == IF recalibrate THEN 0 ELSE EntryDiff
          IN  (8 * Abs(diff) <= Scale /\ 20 * Abs(pitch) > Scale) =>
                  /\ 2 * diff + pitch # 0
                  /\ sync_pitch'.den # 0 ]_vars


\* C17 (as claimed): in player_set_track and player_clone every write of
\* pl->track, and the write of pl->offset that goes with the track change in
\* player_clone, is made while the I/O thread holds pl->lock.
C17_LockDiscipline ==
    [][ (track' # track \/ PlayerCloneCall) => lock = "io" ]_vars

\* the references held on track t when no call is in flight
Holders(t) == (IF track = t THEN 1 ELSE 0) + (IF from.track = t THEN 1 ELSE 0)

\* a step of player_clone
CloneStep ==
    \/ PlayerCloneCall
    \/ CloneAcquire
    \/ CloneLock
    \/ CloneSwap
    \/ CloneUnlock
    \/ CloneRelease

\* C18: player_clone(pl, from) returns with pl's elapsed time equal to from's,
\* pl->track equal to from->track, and every track's reference count equal to
\* the number of players holding it (so, the counts having been so at the
\* call: from's track one up, pl's previous track one down, unchanged when
\* they are the same track); no step of it changes pl->position or from.
C18_Clone ==
    /\ [][ CloneRelease =>
             /\ position' - offset' = from'.position - from'.offset
             /\ track' = from'.track
             /\ \A t \in Tracks : refcount'[t] = Holders(t)' ]_vars
    /\ [][ CloneStep => position' = position /\ from' = from ]_vars
    /\ [][ (iopc = "idle" /\ PlayerCloneCall) =>
             \A t \in Tracks : refcount[t] = Holders(t) ]_vars

\* pl at 3 s with t1 has been cloned from a player 1 s into t2
C18_Witness ==
    /\ iopc = "idle"
    /\ position = 3
    /\ from = [position |-> 2, offset |-> 1, track |-> "t2"]
    /\ offset = 2
    /\ track = "t2"
    /\ refcount = [t1 |-> 0, t2 |-> 2]


\* the audio thread is inside the rendering branch of player_collect
InBlock == apc \in {"rendering", "built"}

\* C21: under every interleaving of player_collect with player_set_track and
\* player_clone, pl->track does not change while a block is being rendered
\* (a swap happens only outside a block, with the lock held by the I/O
\* thread), every sample of a block is read from the one track the player
\* holds a reference on, and a reference is released only once the swap has
\* taken the player off it or left it another one.
C21_NoReleasedTrack ==
    /\ [][ InBlock => track' = track ]_vars
    /\ [][ track' # track => ~InBlock /\ lock = "io" ]_vars
    /\ [][ CollectSample => refcount[track] > 0 /\ pcm'[sIdx + 1] = track ]_vars
    /\ [](InBlock => /\ lock = "audio"
                     /\ \A i \in 1 .. sIdx : pcm[i] = track)
    /\ [][ (SetTrackRelease \/ CloneRelease) =>
             /\ iopc = IF SetTrackRelease THEN "unlocked" ELSE "cl_unlocked"
             /\ refcount'[track] > 0 ]_vars
    /\ [](refcount[track] > 0)

\* a block is partly rendered from t2, the old track t1 has been released
\* and freed, and a player_clone is waiting for the lock
C21_Witness ==
    /\ apc = "rendering"
    /\ sIdx = 1
    /\ track = "t2"
    /\ pcm[1] = "t2"
    /\ refcount["t1"] = 0
    /\ iopc = "cl_acquired"

====
